---- MODULE Spec2Model ----
(***************************************************************************)
(* gw2pvo: the interval loop of src/gw2pvo/__main__.py (run, run_once,      *)
(* on_message) with the module-level daily counters, the pushed meter       *)
(* message and the midnight baseline; the upload path of                    *)
(* src/gw2pvo/pvo_api.py (PVOutputApi.call, add_day); and the day readings  *)
(* of the GoodWe client (getDayReadings).                                   *)
(*                                                                          *)
(* Representation of Python values                                          *)
(*   None            <<>>            a present value x     <<x>>            *)
(*   str payload     the sequence of its space-separated tokens, "" = <<>>  *)
(*   float           an integer number of tenths (pgrid_w = 12004 is        *)
(*                   1200.4 W); eday_kwh is in units of 0.1 Wh              *)
(*   dict            a function; a missing key is outside its DOMAIN        *)
(*   time            whole seconds since local midnight of day 0            *)
(***************************************************************************)
EXTENDS Integers, Sequences, FiniteSets, TLC

VARIABLES
    smartmeter_present,    \* __main__.py:23-27  import smartmeter_mqtt succeeded
    settings,              \* the argparse namespace `args`
    v8_data,               \* __main__.py:39
    data,                  \* __main__.py:47     module-level inverter reading
    pvo_data,              \* __main__.py:46 / 235-262 the upload record
    last_consumed_power,   \* __main__.py:48
    last_consumed_energy,  \* __main__.py:49
    telegram,              \* __main__.py:52     latest pushed meter message
    telegram_midnight,     \* __main__.py:53     midnight baseline message
    csv_rows,              \* rows appended by GoodWeCSV.append
    pvo_calls,             \* calls of PVOutputApi.call
    startTime,             \* __main__.py:450
    now,                   \* the wall clock, datetime.now()
    pc,                    \* position of run() in its while loop
    frame,                 \* locals of the most recent run_once call
    accepted_power,        \* history: last computed consumed power that was >= 0
    emitted_energy,        \* history: <<day, v3>> of the most recent record with v3
    baseline_day,          \* history: day of the most recent baseline capture
    window_day,            \* history: day of the most recent call inside the grace window
    pvo_server,            \* the answers PVOutput gives to the successive POSTs of one call
    pvo_call,              \* pvo_api.py:103-138 how PVOutputApi.call ended, with its log
    batch,                 \* pvo_api.py:74-101  PVOutputApi.add_day: its data and loop position
    day,                   \* gw_api getDayReadings: its inputs, locals and loop position
    backfill,              \* __main__.py:274-294, 427-435 args.date, copy() and its log records
    listener,              \* __main__.py:437-448 the paho client: connection and subscriptions
    iteration,             \* the run_once call in progress: its reads of telegram so far
    received,              \* history: the messages handed to on_message, in order
    inverter,              \* gw_api getCurrentReadings: the payload and what the call gave
    gw                     \* gw_api GoodWeApi: token and base_url of a client, and its requests

vars == <<smartmeter_present, settings, v8_data, data, pvo_data,
          last_consumed_power, last_consumed_energy, telegram,
          telegram_midnight, csv_rows, pvo_calls, startTime, now, pc, frame,
          accepted_power, emitted_energy, baseline_day, window_day,
          pvo_server, pvo_call, batch, day,
          backfill, listener, iteration, received, inverter, gw>>

runVars == <<backfill, listener, iteration, received, inverter, gw>>

\* no paho client has been created
NoListener == [started |-> FALSE, connected |-> FALSE, subscriptions |-> {},
               disconnects |-> 0, rc |-> 0]

\* no run_once call has been made
NoIteration == [running |-> 0, started |-> 0, reads |-> <<>>,
                sun_up |-> FALSE, fetched |-> <<>>, meter_data |-> <<>>]

\* the backfill path, the listener and the inverter client before they are used
RunAtRest ==
    /\ backfill = [pc |-> "idle"]
    /\ listener = NoListener
    /\ iteration = NoIteration
    /\ received = <<>>
    /\ inverter = [pc |-> "idle"]
    /\ gw = [pc |-> "idle"]

----------------------------------------------------------------------------
(* Bounds of the model *)

MaxIterations == 2      \* run_once calls per behaviour
MaxLeadSteps == 2       \* the process starts 0..MaxLeadSteps*LeadStep s before midnight
LeadStep == 200

----------------------------------------------------------------------------
(* Program constants *)

DaySeconds == 86400
GraceSeconds == 301
DefaultConsumedPower == 120
DefaultConsumedEnergy == 0

None == <<>>
Some(x) == <<x>>
IsSome(o) == o # None
Val(o) == o[1]

keys == {"d", "t", "v1", "v2", "v3", "v4", "v5", "v6",
         "v7", "v8", "v9", "v10", "v11", "v12"}

Intervals == {5, 10, 15}
MeterTopic == "beeclear"
mqtt_topic == "user"

----------------------------------------------------------------------------
(* Python arithmetic *)

\* round(x) of a float x given in tenths: round half to even
PyRound(t) ==
    LET q == t \div 10
        r == t % 10
    IN  IF r < 5 THEN q
        ELSE IF r > 5 THEN q + 1
        ELSE IF q % 2 = 0 THEN q ELSE q + 1

\* int(x) of a float x given in tenths: truncation toward zero
PyInt(t) == IF t >= 0 THEN t \div 10 ELSE -((-t) \div 10)

Day(t) == t \div DaySeconds
SecondsSinceMidnight(t) == t % DaySeconds

----------------------------------------------------------------------------
(* Inverter readings returned by GoodWeApi.getCurrentReadings.  pgrid_w,    *)
(* the voltages, the string powers and the temperature are in tenths;       *)
(* eday_kwh is in units of 0.1 Wh (52000 is 5.2 kWh).                       *)

Readings == {
    [status |-> "Normal", pgrid_w |-> 12004, eday_kwh |-> 52000,
     grid_voltage |-> 2301, pv_voltage |-> 3105, vpv1 |-> 3105, vpv2 |-> 0,
     Ppv1 |-> 12415, Ppv2 |-> 0, temperature |-> 405],
    [status |-> "Offline", pgrid_w |-> 0, eday_kwh |-> 0,
     grid_voltage |-> 0, pv_voltage |-> 12, vpv1 |-> 12, vpv2 |-> 0,
     Ppv1 |-> 0, Ppv2 |-> 0, temperature |-> 0] }

----------------------------------------------------------------------------
(* The smart meter module smartmeter_mqtt.  A pushed message is named by    *)
(* its single token; decoding gives the cumulative meter counters (Wh) and  *)
(* the instantaneous powers (W), as floats in tenths.                       *)

MeterMessages == {<<"M1">>, <<"M2">>}

decode_mqtt(t) ==
    CASE t = <<"M1">> -> [import_low |-> 10000, import_high |-> 20000,
                          export_low |-> 1000, export_high |-> 4000,
                          import_power |-> 3004, export_power |-> 0]
      [] t = <<"M2">> -> [import_low |-> 10000, import_high |-> 20006,
                          export_low |-> 1000, export_high |-> 54000,
                          import_power |-> 0, export_power |-> 15000]

ZeroCounters == [import_low |-> 0, import_high |-> 0, export_low |-> 0,
                 export_high |-> 0, import_power |-> 0, export_power |-> 0]

\* the meter snapshot: the counters diffed against the midnight counters
MeterSnapshot(meter, meter_midnight) ==
    [import_energy |-> (meter.import_high - meter_midnight.import_high)
                       + (meter.import_low - meter_midnight.import_low),
     import_power  |-> meter.import_power,
     export_energy |-> (meter.export_high - meter_midnight.export_high)
                       + (meter.export_low - meter_midnight.export_low),
     export_power  |-> meter.export_power]

\* The possible results of returndata(telegram, telegram_midnight); None is
\* a raised exception.  With no cached midnight message the module either
\* fails to decode it or diffs against zero counters.
returndata(t, m) ==
    IF t \notin MeterMessages THEN {None}
    ELSE IF m = <<>> THEN {None, Some(MeterSnapshot(decode_mqtt(t), ZeroCounters))}
    ELSE IF m \notin MeterMessages THEN {None}
    ELSE {Some(MeterSnapshot(decode_mqtt(t), decode_mqtt(m)))}

----------------------------------------------------------------------------
(* run_once, step by step *)

\* the inline function r: round if not None (and not 0)
r(x) == IF x # 0 THEN Some(PyRound(x)) ELSE None

\* if city is given the daylight test decides, otherwise the sun is up
SunUpChoices(city) == IF city THEN BOOLEAN ELSE {TRUE}

\* only fetch data when sun up or when no data stored yet
FetchNeeded(sun_up, stored) == sun_up \/ DOMAIN stored = {}

\* SkipOffline that never aborts
SkipOffline_Never(skip_offline, status) == FALSE

\* abort when offline
SkipOffline(skip_offline, status) == skip_offline /\ status = "Offline"

\* a row is appended to the CSV file
AppendCsv(csv, status) == csv /\ status # "Offline"

\* Voltage that ignores the pv_voltage setting
Voltage_Grid(pv_voltage, rd) == rd.grid_voltage

\* voltage = data['grid_voltage'], or data['pv_voltage'] with --pv-voltage
Voltage(pv_voltage, rd) == IF pv_voltage THEN rd.pv_voltage ELSE rd.grid_voltage

\* int(1000 * data['eday_kwh']): eday_kwh in 0.1 Wh is 1000 * eday_kwh in tenths of Wh
GeneratedEnergy(rd) == PyInt(rd.eday_kwh)

GeneratedPower(rd) == PyRound(rd.pgrid_w)

\* is there a smart meter available to upload consumption data?
MeterAvailable(present, t) == present /\ Len(t) > 0

\* ConsumedEnergy with the exported energy added
ConsumedEnergy_ExportAdded(md, generated_energy) ==
    PyRound(md.import_energy + md.export_energy + 10 * generated_energy)

\* consumed energy = imported energy - exported energy + generated energy
ConsumedEnergy(md, generated_energy) ==
    PyRound(md.import_energy - md.export_energy + 10 * generated_energy)

\* midnight with 5 minutes (301 sec) margin
InGraceWindow(t) == SecondsSinceMidnight(t) < GraceSeconds

\* consumed energy can not become less
ClampEnergy(consumed_energy, last) ==
    IF consumed_energy < last
    THEN [emit |-> last, last |-> last]
    ELSE [emit |-> consumed_energy, last |-> last]

\* consumed power = imported power - exported power + produced power
ConsumedPower(md, generated_power) ==
    PyRound(md.import_power - md.export_power + 10 * generated_power)

\* ClampPower without the test for a negative value
ClampPower_Unclamped(consumed_power, last) ==
    [emit |-> consumed_power, last |-> last]

\* power cannot be negative
ClampPower(consumed_power, last) ==
    IF consumed_power < 0
    THEN [emit |-> last, last |-> last]
    ELSE [emit |-> consumed_power, last |-> last]

\* f updated with g, as dict.update
Update(f, g) ==
    [k \in DOMAIN f \cup DOMAIN g |-> IF k \in DOMAIN g THEN g[k] ELSE f[k]]

\* BuildRecord with `else` in place of `elif sun_up`
BuildRecord_Ungated(sun_up, present, voltage, inverter_temperature, v8, consumption, generated_energy, generated_power, rd) ==
    LET base == [k \in {"v6", "v7", "v8"} |->
                    CASE k = "v6" -> Some(voltage)
                      [] k = "v7" -> Some(inverter_temperature)
                      [] k = "v8" -> v8]
        cons == [k \in {"v3", "v4"} |->
                    IF k = "v3" THEN Some(Val(consumption).consumed_energy)
                                ELSE Some(Val(consumption).consumed_power)]
        gen  == [k \in {"v1", "v2"} |->
                    IF k = "v1" THEN Some(generated_energy)
                                ELSE Some(generated_power)]
        str  == [k \in {"v9", "v10", "v11", "v12"} |->
                    CASE k = "v9"  -> r(rd.vpv1)
                      [] k = "v10" -> r(rd.vpv2)
                      [] k = "v11" -> r(rd.Ppv1)
                      [] k = "v12" -> r(rd.Ppv2)]
        s1 == IF present THEN Update(base, cons) ELSE Update(base, gen)
    IN  IF sun_up THEN Update(Update(s1, gen), str) ELSE s1

\* the record pvo_data; consumption is None when the meter branch did not run
BuildRecord(sun_up, present, voltage, inverter_temperature, v8, consumption, generated_energy, generated_power, rd) ==
    LET base == [k \in {"v6", "v7", "v8"} |->
                    CASE k = "v6" -> Some(voltage)
                      [] k = "v7" -> Some(inverter_temperature)
                      [] k = "v8" -> v8]
        cons == [k \in {"v3", "v4"} |->
                    IF k = "v3" THEN Some(Val(consumption).consumed_energy)
                                ELSE Some(Val(consumption).consumed_power)]
        gen  == [k \in {"v1", "v2"} |->
                    IF k = "v1" THEN Some(generated_energy)
                                ELSE Some(generated_power)]
        str  == [k \in {"v9", "v10", "v11", "v12"} |->
                    CASE k = "v9"  -> r(rd.vpv1)
                      [] k = "v10" -> r(rd.vpv2)
                      [] k = "v11" -> r(rd.Ppv1)
                      [] k = "v12" -> r(rd.Ppv2)]
        s1 == IF present THEN Update(base, cons)
              ELSE IF sun_up THEN Update(base, gen)
              ELSE base
    IN  IF sun_up THEN Update(Update(s1, gen), str) ELSE s1

\* 'v3': consumed_energy reads a local that the meter branch never bound
RecordRaises(present, consumption) == present /\ consumption = None

\* What one call of run_once does, given the daylight test, the result of
\* getCurrentReadings (None: it raised) and the result of returndata.
run_once_reads(sun_up, fetched, meter_data, t195, t215) ==
    LET rdo == IF FetchNeeded(sun_up, data) THEN fetched ELSE Some(data)
        fr0 == [outcome |-> "raised", error |-> "", sun_up |-> sun_up,
                status |-> IF rdo = None THEN None ELSE Some(Val(rdo).status),
                polled |-> FetchNeeded(sun_up, data),
                in_grace |-> InGraceWindow(now),
                meter |-> MeterAvailable(smartmeter_present, t195),
                meter_data |-> None,
                generated_energy |-> None, generated_power |-> None,
                computed_energy |-> None, computed_power |-> None]
        \* the parameter pvo_data is bound to the module-level dict
        res0 == [frame |-> fr0, pvo_data |-> [k \in keys |-> None],
                 last_consumed_power |-> last_consumed_power,
                 last_consumed_energy |-> last_consumed_energy,
                 telegram_midnight |-> telegram_midnight,
                 csv_rows |-> csv_rows]
    IN
    IF rdo = None
    THEN [res0 EXCEPT !.frame.error = "RequestException"]
    ELSE
    LET rd == Val(rdo) IN
    IF SkipOffline(settings.skip_offline, rd.status)
    THEN [res0 EXCEPT !.frame.outcome = "skipped"]
    ELSE
    LET rows == IF AppendCsv(settings.csv, rd.status) THEN csv_rows + 1 ELSE csv_rows
        inverter_temperature == rd.temperature
        voltage == Voltage(settings.pv_voltage, rd)
        generated_energy == GeneratedEnergy(rd)
        generated_power == GeneratedPower(rd)
        res1 == [res0 EXCEPT !.csv_rows = rows,
                             !.frame.generated_energy = Some(generated_energy),
                             !.frame.generated_power = Some(generated_power)]
    IN
    IF ~MeterAvailable(smartmeter_present, t195)
    THEN IF RecordRaises(smartmeter_present, None)
         THEN [res1 EXCEPT !.frame.error = "UnboundLocalError"]
         ELSE [res1 EXCEPT !.frame.outcome = "completed",
                           !.pvo_data = BuildRecord(sun_up, smartmeter_present, voltage,
                                            inverter_temperature, v8_data, None,
                                            generated_energy, generated_power, rd)]
    ELSE IF meter_data = None
    THEN [res1 EXCEPT !.frame.error = "returndata"]
    ELSE
    LET md == Val(meter_data)
        computed_energy == ConsumedEnergy(md, generated_energy)
        res2 == [res1 EXCEPT !.frame.meter_data = meter_data]
    IN
    IF InGraceWindow(now)
    THEN \* telegram_midnight=telegram, then print (telegram_) raises
         [res2 EXCEPT !.telegram_midnight = t215,
                      !.frame.computed_energy = Some(computed_energy),
                      !.frame.error = "NameError"]
    ELSE
    LET ce == ClampEnergy(computed_energy, last_consumed_energy)
        computed_power == ConsumedPower(md, generated_power)
        cp == ClampPower(computed_power, last_consumed_power)
        consumption == Some([consumed_energy |-> ce.emit, consumed_power |-> cp.emit])
    IN  [res2 EXCEPT !.frame.outcome = "completed",
                     !.frame.computed_energy = Some(computed_energy),
                     !.frame.computed_power = Some(computed_power),
                     !.last_consumed_energy = ce.last,
                     !.last_consumed_power = cp.last,
                     !.pvo_data = BuildRecord(sun_up, smartmeter_present, voltage,
                                      inverter_temperature, v8_data, consumption,
                                      generated_energy, generated_power, rd)]

\* run_once when no message arrives while it runs: every read of telegram
\* gives the same value
run_once(sun_up, fetched, meter_data) ==
    run_once_reads(sun_up, fetched, meter_data, telegram, telegram)

----------------------------------------------------------------------------
(* The state after module initialisation and argument parsing, at the       *)
(* entry of the while loop of run().                                        *)

Settings == [skip_offline : BOOLEAN, csv : BOOLEAN, pv_voltage : BOOLEAN,
             city : BOOLEAN,
             pvo_interval : {None} \cup {Some(i) : i \in Intervals}]

StartTimes == {DaySeconds - LeadStep * i : i \in 0..MaxLeadSteps}

Init ==
    /\ smartmeter_present \in BOOLEAN
    /\ settings \in Settings
    /\ v8_data = None
    /\ data = <<>>
    /\ pvo_data = [k \in keys |-> None]
    /\ last_consumed_power = DefaultConsumedPower
    /\ last_consumed_energy = DefaultConsumedEnergy
    /\ telegram = <<>>
    /\ telegram_midnight = <<>>
    /\ csv_rows = 0
    /\ pvo_calls = 0
    /\ startTime \in StartTimes
    /\ now = startTime
    /\ pc = "run_once"
    /\ frame = [outcome |-> "none"]
    /\ accepted_power = DefaultConsumedPower
    /\ emitted_energy = None
    /\ baseline_day = -1
    /\ window_day = -1
    /\ pvo_server = <<>>
    /\ pvo_call = [outcome |-> "none"]
    /\ batch = [pc |-> "idle"]
    /\ day = [pc |-> "idle"]
    /\ RunAtRest

----------------------------------------------------------------------------
(* The MQTT listener thread *)

UserPayloads == {<<"21", "x">>}

\* the messages the broker delivers: <<topic, payload>>
Messages == {<<mqtt_topic, p>> : p \in UserPayloads}
            \cup {<<MeterTopic, p>> : p \in MeterMessages}
            \cup {<<"other", p>> : p \in UserPayloads}

\* FirstToken taking the last token of the payload
FirstToken_Last(payload) == IF payload = <<>> THEN "" ELSE payload[Len(payload)]

\* msglist[0] of payload.split(" ")
FirstToken(payload) == IF payload = <<>> THEN "" ELSE payload[1]

on_message(topic, payload) ==
    /\ v8_data' = IF topic = mqtt_topic THEN Some(FirstToken(payload)) ELSE v8_data
    /\ telegram' = IF topic = MeterTopic THEN payload ELSE telegram
    /\ UNCHANGED <<smartmeter_present, settings, data, pvo_data,
                   last_consumed_power, last_consumed_energy,
                   telegram_midnight, csv_rows, pvo_calls, startTime, now, pc,
                   frame, accepted_power, emitted_energy, baseline_day, window_day>>
    /\ UNCHANGED <<pvo_server, pvo_call, batch, day>>
    /\ UNCHANGED <<backfill, listener, iteration, inverter, gw>>

OnMessage ==
    /\ \E message \in Messages : on_message(message[1], message[2])
    /\ UNCHANGED received

----------------------------------------------------------------------------
(* The interval loop of run() *)

\* number of whole intervals since startTime; the index of the next call
Iteration ==
    IF settings.pvo_interval = None THEN 0
    ELSE (now - startTime) \div (Val(settings.pvo_interval) * 60)

\* run_once returns or raises: its effects on the globals, with the history
Return(res) ==
    /\ frame' = res.frame
    /\ pvo_data' = res.pvo_data
    /\ last_consumed_power' = res.last_consumed_power
    /\ last_consumed_energy' = res.last_consumed_energy
    /\ telegram_midnight' = res.telegram_midnight
    /\ csv_rows' = res.csv_rows
    /\ accepted_power' =
          IF IsSome(res.frame.computed_power) /\ Val(res.frame.computed_power) >= 0
          THEN Val(res.frame.computed_power) ELSE accepted_power
    /\ emitted_energy' =
          IF res.frame.outcome = "completed" /\ "v3" \in DOMAIN res.pvo_data
          THEN <<Day(now), Val(res.pvo_data["v3"])>> ELSE emitted_energy
    /\ baseline_day' =
          IF res.frame.meter_data # None /\ res.frame.in_grace
          THEN Day(now) ELSE baseline_day
    /\ window_day' = IF InGraceWindow(now) THEN Day(now) ELSE window_day

\* try: run_once(pvo_data, data, args, city) except Exception: logged
RunOnce ==
    /\ pc = "run_once"
    /\ Iteration < MaxIterations
    /\ \E sun_up \in SunUpChoices(settings.city),
          fetched \in {None} \cup {Some(rd) : rd \in Readings},
          meter_data \in returndata(telegram, telegram_midnight) :
          Return(run_once(sun_up, fetched, meter_data))
    /\ pc' = "after"
    /\ UNCHANGED <<smartmeter_present, settings, v8_data, data, telegram,
                   pvo_calls, startTime, now>>
    /\ UNCHANGED <<pvo_server, pvo_call, batch, day>>
    /\ UNCHANGED runVars

\* if args.pvo_interval is None: break
Break ==
    /\ pc = "after"
    /\ settings.pvo_interval = None
    /\ pc' = "exit"
    /\ UNCHANGED <<smartmeter_present, settings, v8_data, data, pvo_data,
                   last_consumed_power, last_consumed_energy, telegram,
                   telegram_midnight, csv_rows, pvo_calls, startTime, now,
                   frame, accepted_power, emitted_energy, baseline_day, window_day>>
    /\ UNCHANGED <<pvo_server, pvo_call, batch, day>>
    /\ UNCHANGED runVars

\* SleepSeconds without any wait
SleepSeconds_None(interval, t, start) == 0

\* SleepSeconds that waits one whole interval after every iteration
SleepSeconds_Whole(interval, t, start) == interval

\* interval - (datetime.now() - startTime).seconds % interval
SleepSeconds(interval, t, start) ==
    interval - (((t - start) % DaySeconds) % interval)

Sleep ==
    /\ pc = "after"
    /\ settings.pvo_interval # None
    /\ now' = now + SleepSeconds(Val(settings.pvo_interval) * 60, now, startTime)
    /\ pc' = "run_once"
    /\ UNCHANGED <<smartmeter_present, settings, v8_data, data, pvo_data,
                   last_consumed_power, last_consumed_energy, telegram,
                   telegram_midnight, csv_rows, pvo_calls, startTime,
                   frame, accepted_power, emitted_energy, baseline_day, window_day>>
    /\ UNCHANGED <<pvo_server, pvo_call, batch, day>>
    /\ UNCHANGED runVars

Next == OnMessage \/ RunOnce \/ Break \/ Sleep

Spec == Init /\ [][Next]_vars

TypeOK ==
    /\ pc \in {"run_once", "after", "exit"}
    /\ last_consumed_power \in Int
    /\ last_consumed_energy \in Int
    /\ csv_rows \in Nat
    /\ now >= startTime

----------------------------------------------------------------------------
(* The loop of run() before its first iteration: the state the module-level *)
(* globals have while copy() or an upload runs.                             *)

LoopAtRest ==
    /\ smartmeter_present = FALSE
    /\ settings = [skip_offline |-> FALSE, csv |-> FALSE, pv_voltage |-> FALSE,
                   city |-> FALSE, pvo_interval |-> None]
    /\ v8_data = None
    /\ data = <<>>
    /\ pvo_data = [k \in keys |-> None]
    /\ last_consumed_power = DefaultConsumedPower
    /\ last_consumed_energy = DefaultConsumedEnergy
    /\ telegram = <<>>
    /\ telegram_midnight = <<>>
    /\ csv_rows = 0
    /\ pvo_calls = 0
    /\ startTime = DaySeconds
    /\ now = startTime
    /\ pc = "run_once"
    /\ frame = [outcome |-> "none"]
    /\ accepted_power = DefaultConsumedPower
    /\ emitted_energy = None
    /\ baseline_day = -1
    /\ window_day = -1

loopVars == <<smartmeter_present, settings, v8_data, data, pvo_data,
              last_consumed_power, last_consumed_energy, telegram,
              telegram_midnight, csv_rows, pvo_calls, startTime, now, pc, frame,
              accepted_power, emitted_energy, baseline_day, window_day>>

----------------------------------------------------------------------------
(* PVOutputApi.call.  PVOutput is the sequence of answers it gives to the   *)
(* successive POSTs of one call: a status code with the seconds until the   *)
(* rate limit resets, or no response at all (requests.post raised).  The    *)
(* log is the sequence of POSTs and sleeps the call performed.              *)

\* the number of answers the server has ready for one call
MaxResponses == 4

\* status codes; NoResponse stands for a POST that raised before any response
NoResponse == 0
Ok == 200
ServerError == 500
Forbidden == 403

\* round(float(r.headers['X-Rate-Limit-Reset']) - time.time()), 0 without header
Resets == {-3, 0, 2}

Answers == {[status |-> st, reset |-> 0] : st \in {Ok, ServerError, NoResponse}}
           \cup {[status |-> Forbidden, reset |-> x] : x \in Resets}

Servers == [1..MaxResponses -> Answers]

\* range(1, 4) with one more attempt
Attempts_Four == 1..4

\* range(1, 4) with the last attempt dropped
Attempts_Two == 1..2

\* for i in range(1, 4)
Attempts == 1..3

\* Backoff with the square in place of the cube
Backoff_Square(i) == i ^ 2

\* time.sleep(i ** 3)
Backoff(i) == i ^ 3

\* RateLimitSleep without the extra second
RateLimitSleep_Exact(reset) == reset

\* time.sleep(reset + 1)
RateLimitSleep(reset) == reset + 1

\* time.sleep raises ValueError for a negative length
SleepRaises(seconds) == seconds < 0

\* r.raise_for_status() raises HTTPError for the 4xx and 5xx codes
RaisesForStatus(status) == status \in 400..599

Post(status) == [op |-> "post", arg |-> status]
Slept(seconds) == [op |-> "sleep", arg |-> seconds]

\* the for loop from iteration i on; r_bound: the local r has been assigned
RECURSIVE attempt(_, _, _, _)
attempt(i, r_bound, server, log) ==
    IF i \notin Attempts
    THEN \* else: logging.error("Failed to call PVOutput API")
         [outcome |-> "exhausted", error |-> "", log |-> log]
    ELSE
    LET answer == Head(server)
        posted == Append(log, Post(answer.status))
    IN
    IF answer.status = NoResponse
    THEN \* except RequestException: logging.warning(r.text or str(arg))
         IF r_bound
         THEN attempt(i + 1, TRUE, Tail(server), Append(posted, Slept(Backoff(i))))
         ELSE [outcome |-> "raised", error |-> "UnboundLocalError", log |-> posted]
    ELSE IF answer.status = Forbidden
    THEN IF SleepRaises(RateLimitSleep(answer.reset))
         THEN [outcome |-> "raised", error |-> "ValueError", log |-> posted]
         ELSE attempt(i + 1, TRUE, Tail(server),
                      posted \o <<Slept(RateLimitSleep(answer.reset)), Slept(Backoff(i))>>)
    ELSE IF RaisesForStatus(answer.status)
    THEN attempt(i + 1, TRUE, Tail(server), Append(posted, Slept(Backoff(i))))
    ELSE \* break
         [outcome |-> "success", error |-> "", log |-> posted]

call(server) == attempt(1, FALSE, server, <<>>)

InitCall ==
    /\ LoopAtRest
    /\ pvo_server \in Servers
    /\ pvo_call = [outcome |-> "none"]
    /\ batch = [pc |-> "idle"]
    /\ day = [pc |-> "idle"]
    /\ RunAtRest

Call ==
    /\ pvo_call.outcome = "none"
    /\ pvo_call' = call(pvo_server)
    /\ UNCHANGED <<loopVars, pvo_server, batch, day, runVars>>

NextCall == Call

SpecCall == InitCall /\ [][NextCall]_vars

----------------------------------------------------------------------------
(* PVOutputApi.add_day.  A reading of the day has dt in minutes since        *)
(* midnight, eday_kwh in units of 0.1 Wh and pgrid_w in W.                   *)

\* the longest list of readings handed to add_day
MaxEntries == 61

BatchSize == 30

\* the entries of a day: one every five minutes from 06:05 on
DayEntries(n) ==
    [k \in 1..n |-> [dt |-> 360 + 5 * k, pgrid_w |-> 10 * k, eday_kwh |-> 25 * k]]

\* the fields date (left out: one day), %H:%M, round(eday_kwh * 1000), pgrid_w
Row(reading) ==
    <<reading.dt \div 60, reading.dt % 60, PyRound(reading.eday_kwh), reading.pgrid_w>>

\* data[i:i + 30], i counted from 0
Slice(entries, i) ==
    SubSeq(entries, i + 1, IF i + BatchSize < Len(entries) THEN i + BatchSize
                           ELSE Len(entries))

\* the ways a call of PVOutputApi.call ends
CallOutcomes == {call(server).outcome : server \in Servers}

InitAddDay ==
    /\ LoopAtRest
    /\ pvo_server = <<>>
    /\ pvo_call = [outcome |-> "none"]
    /\ \E n \in 0..MaxEntries :
          batch = [pc |-> "loop", entries |-> DayEntries(n), i |-> 0, calls |-> <<>>,
                   outcomes |-> <<>>]
    /\ day = [pc |-> "idle"]
    /\ RunAtRest

\* one iteration of the for loop: build the payload of the chunk and call
AddDayChunk ==
    /\ batch.pc = "loop"
    /\ batch.i < Len(batch.entries)
    /\ \E outcome \in CallOutcomes :
          LET chunk == Slice(batch.entries, batch.i)
              readings == [k \in 1..Len(chunk) |-> Row(chunk[k])]
          IN  batch' = [batch EXCEPT !.calls = Append(@, readings),
                                     !.outcomes = Append(@, outcome),
                                     !.i = @ + BatchSize,
                                     !.pc = IF outcome = "raised" THEN "raised"
                                            ELSE "loop"]
    /\ UNCHANGED <<loopVars, pvo_server, pvo_call, day, runVars>>

\* the list of chunks is used up: add_day returns
AddDayReturn ==
    /\ batch.pc = "loop"
    /\ batch.i >= Len(batch.entries)
    /\ batch' = [batch EXCEPT !.pc = "done"]
    /\ UNCHANGED <<loopVars, pvo_server, pvo_call, day, runVars>>

NextAddDay == AddDayChunk \/ AddDayReturn

SpecAddDay == InitAddDay /\ [][NextAddDay]_vars

----------------------------------------------------------------------------
(* GoodWeApi.getDayReadings.  A sample of getDayPac has its date in seconds  *)
(* since midnight and its power pac in W.  The local hours is kept in        *)
(* minutes and the local kwh in W min (60000 W min are 1 kWh); eday_kwh of   *)
(* an entry is the fraction num / den in Wh.                                 *)

\* the longest list of samples returned by getDayPac
MaxSamples == 3

\* 00:00:00, 00:20:30, 00:40:00
SampleTimes == {0, 1230, 2400}
SamplePowers == {-5, 0, 5, 13}

\* the results of getActualKwh in Wh; 0 also stands for missing data
Actuals == {0, 50}

DaySamples == [date : SampleTimes, pac : SamplePowers]

DayPacs == UNION {[1..n -> DaySamples] : n \in 0..MaxSamples}

\* parsed_date.hour + parsed_date.minute / 60, in minutes
Hours(date) == (date \div 3600) * 60 + (date % 3600) \div 60

\* round(n / d) for d > 0: round half to even
RoundDiv(n, d) ==
    LET q == n \div d
        rest == n % d
    IN  IF 2 * rest < d THEN q
        ELSE IF 2 * rest > d THEN q + 1
        ELSE IF q % 2 = 0 THEN q ELSE q + 1

\* round(kwh, 3), in Wh
RoundedWh(kwh) == RoundDiv(kwh, 60)

\* EnergyAdded with the elapsed time taken backwards
EnergyAdded_Reversed(pgrid_w, elapsed) == pgrid_w * (0 - elapsed)

\* EnergyAdded with half of the product
EnergyAdded_Half(pgrid_w, elapsed) == (pgrid_w * elapsed) \div 2

\* pgrid_w / 1000 * (next_hours - hours)
EnergyAdded(pgrid_w, elapsed) == pgrid_w * elapsed

\* Correction with the quotient turned over
Correction_Inverse(eday_kwh, kwh) == [num |-> kwh, den |-> eday_kwh * 60]

\* correction = eday_kwh / kwh
Correction(eday_kwh, kwh) == [num |-> eday_kwh * 60, den |-> kwh]

\* sample['eday_kwh'] *= correction
Times(x, y) == [num |-> x.num * y.num, den |-> x.den * y.den]

InitDay ==
    /\ LoopAtRest
    /\ pvo_server = <<>>
    /\ pvo_call = [outcome |-> "none"]
    /\ batch = [pc |-> "idle"]
    /\ \E pacs \in DayPacs, actual \in Actuals :
          day = [pc |-> "loop", pacs |-> pacs, actual |-> actual, k |-> 1,
                 hours |-> 0, kwh |-> 0, entries |-> <<>>, integrated |-> <<>>,
                 error |-> ""]
    /\ RunAtRest

\* one iteration of `for sample in pacs`; integrated keeps the energy of
\* each entry as it was appended
DaySample ==
    /\ day.pc = "loop"
    /\ day.k <= Len(day.pacs)
    /\ LET sample == day.pacs[day.k]
           next_hours == Hours(sample.date)
           pgrid_w == sample.pac
           kwh == day.kwh + EnergyAdded(pgrid_w, next_hours - day.hours)
       IN  day' = IF pgrid_w > 0
                  THEN [day EXCEPT !.kwh = kwh,
                                   !.entries = Append(@,
                                       [dt |-> sample.date, pgrid_w |-> pgrid_w,
                                        eday_kwh |-> [num |-> RoundedWh(kwh), den |-> 1]]),
                                   !.integrated = Append(@, RoundedWh(kwh)),
                                   !.hours = next_hours,
                                   !.k = @ + 1]
                  ELSE [day EXCEPT !.hours = next_hours, !.k = @ + 1]
    /\ UNCHANGED <<loopVars, pvo_server, pvo_call, batch, runVars>>

\* after the loop: eday_kwh = self.getActualKwh(date) and the correction
DayRescale ==
    /\ day.pc = "loop"
    /\ day.k > Len(day.pacs)
    /\ day' = IF day.actual > 0
              THEN IF day.kwh = 0
                   THEN [day EXCEPT !.pc = "raised", !.error = "ZeroDivisionError"]
                   ELSE [day EXCEPT !.pc = "done",
                            !.entries = [j \in 1..Len(@) |->
                                [@[j] EXCEPT !.eday_kwh =
                                    Times(@, Correction(day.actual, day.kwh))]]]
              ELSE [day EXCEPT !.pc = "done"]
    /\ UNCHANGED <<loopVars, pvo_server, pvo_call, batch, runVars>>

NextDay == DaySample \/ DayRescale

SpecDay == InitDay /\ [][NextDay]_vars

----------------------------------------------------------------------------
(* run() from line 427 on: the backfill path copy(), or the listener and    *)
(* the interval loop.                                                       *)

\* args.date with the PVOutput credentials that copy() tests; run_once reads
\* neither
BackfillArgs == {[date |-> None, credentials |-> c] : c \in BOOLEAN}
                \cup {[date |-> Some("2023-06-01"), credentials |-> c] : c \in BOOLEAN}

\* the configurations the run is started with
RunSettings == {s \in Settings : /\ ~s.skip_offline /\ ~s.csv /\ ~s.pv_voltage /\ ~s.city
                                 /\ s.pvo_interval \in {None, Some(5)}}

InitRun ==
    /\ smartmeter_present = TRUE
    /\ settings \in RunSettings
    /\ v8_data = None
    /\ data = <<>>
    /\ pvo_data = [k \in keys |-> None]
    /\ last_consumed_power = DefaultConsumedPower
    /\ last_consumed_energy = DefaultConsumedEnergy
    /\ telegram = <<>>
    /\ telegram_midnight = <<>>
    /\ csv_rows = 0
    /\ pvo_calls = 0
    /\ now \in StartTimes
    /\ startTime = now
    /\ pc = "start"
    /\ frame = [outcome |-> "none"]
    /\ accepted_power = DefaultConsumedPower
    /\ emitted_energy = None
    /\ baseline_day = -1
    /\ window_day = -1
    /\ pvo_server = <<>>
    /\ pvo_call = [outcome |-> "none"]
    /\ batch = [pc |-> "idle"]
    /\ day = [pc |-> "idle"]
    /\ \E args \in BackfillArgs :
          backfill = [pc |-> "idle", date |-> args.date,
                      credentials |-> args.credentials, copies |-> 0,
                      logged |-> <<>>, uploaded |-> <<>>, warned |-> FALSE,
                      outcome |-> "none", error |-> ""]
    \* a backfill run reads neither the interval nor the clock
    /\ backfill.date # None => (settings.pvo_interval = None /\ now \in {DaySeconds})
    /\ listener = NoListener
    /\ iteration = NoIteration
    /\ received = <<>>
    /\ inverter = [pc |-> "idle"]
    /\ gw = [pc |-> "idle"]

\* if args.date:
CopyWanted(date) == date # None

\* the position of run() after copy() without the sys.exit() of line 435
AfterCopy_FallThrough == "mqtt"

\* sys.exit() after copy(), whether it returned or raised
AfterCopy == "exit"

\* the entry of copy(): the GoodWe client starts getDayReadings
StartCopy ==
    /\ pc = "start"
    /\ CopyWanted(backfill.date)
    /\ pc' = "copy"
    /\ backfill' = [backfill EXCEPT !.pc = "getDayReadings", !.copies = @ + 1]
    /\ \E pacs \in DayPacs, actual \in Actuals :
          day' = [pc |-> "loop", pacs |-> pacs, actual |-> actual, k |-> 1,
                  hours |-> 0, kwh |-> 0, entries |-> <<>>, integrated |-> <<>>,
                  error |-> ""]
    /\ UNCHANGED <<smartmeter_present, settings, v8_data, data, pvo_data,
                   last_consumed_power, last_consumed_energy, telegram,
                   telegram_midnight, csv_rows, pvo_calls, startTime, now,
                   frame, accepted_power, emitted_energy, baseline_day, window_day>>
    /\ UNCHANGED <<pvo_server, pvo_call, batch, listener, iteration, received, inverter, gw>>

\* the log record of an entry formats entry['dt'], entry['pgrid_w'] and
\* entry['eday_wh']: KeyError for a key the entry lacks
LogRaises(entry) == ~({"dt", "pgrid_w", "eday_wh"} \subseteq DOMAIN entry)

\* for entry in daydata['entries']: logging.info(...), up to the first raise
RECURSIVE LogEntries(_, _)
LogEntries(entries, logged) ==
    IF entries = <<>> THEN [logged |-> logged, error |-> ""]
    ELSE IF LogRaises(Head(entries)) THEN [logged |-> logged, error |-> "KeyError"]
    ELSE LogEntries(Tail(entries), Append(logged, Head(entries)))

\* how pvo.add_day(entries) ends: it makes no call for an empty list
AddDayOutcomes(entries) ==
    IF entries = <<>> THEN {"returned"}
    ELSE {IF o = "raised" THEN "raised" ELSE "returned" : o \in CallOutcomes}

\* copy() after getDayReadings returned: upload the entries or log them
CopyEntries ==
    /\ pc = "copy"
    /\ backfill.pc = "getDayReadings"
    /\ day.pc = "done"
    /\ IF backfill.credentials
       THEN \E o \in AddDayOutcomes(day.entries) :
               backfill' = [backfill EXCEPT !.pc = "ended", !.uploaded = day.entries,
                               !.outcome = o,
                               !.error = IF o = "raised" THEN "call" ELSE ""]
       ELSE LET log == LogEntries(day.entries, <<>>)
            IN  backfill' = [backfill EXCEPT !.pc = "ended", !.logged = log.logged,
                                !.warned = (log.error = ""),
                                !.outcome = IF log.error = "" THEN "returned" ELSE "raised",
                                !.error = log.error]
    /\ UNCHANGED <<loopVars, pvo_server, pvo_call, batch, day>>
    /\ UNCHANGED <<listener, iteration, received, inverter, gw>>

\* getDayReadings raised: the exception leaves copy()
CopyFailed ==
    /\ pc = "copy"
    /\ backfill.pc = "getDayReadings"
    /\ day.pc = "raised"
    /\ backfill' = [backfill EXCEPT !.pc = "ended", !.outcome = "raised",
                                    !.error = day.error]
    /\ UNCHANGED <<loopVars, pvo_server, pvo_call, batch, day>>
    /\ UNCHANGED <<listener, iteration, received, inverter, gw>>

\* except Exception: logging.error(exp); then sys.exit()
CopyExit ==
    /\ pc = "copy"
    /\ backfill.pc = "ended"
    /\ pc' = AfterCopy
    /\ UNCHANGED <<smartmeter_present, settings, v8_data, data, pvo_data,
                   last_consumed_power, last_consumed_energy, telegram,
                   telegram_midnight, csv_rows, pvo_calls, startTime, now,
                   frame, accepted_power, emitted_energy, baseline_day, window_day>>
    /\ UNCHANGED <<pvo_server, pvo_call, batch, day, runVars>>

\* no date given: run() goes on to the MQTT setup
NoCopy ==
    /\ pc = "start"
    /\ ~CopyWanted(backfill.date)
    /\ pc' = "mqtt"
    /\ UNCHANGED <<smartmeter_present, settings, v8_data, data, pvo_data,
                   last_consumed_power, last_consumed_energy, telegram,
                   telegram_midnight, csv_rows, pvo_calls, startTime, now,
                   frame, accepted_power, emitted_energy, baseline_day, window_day>>
    /\ UNCHANGED <<pvo_server, pvo_call, batch, day, runVars>>

----------------------------------------------------------------------------
(* run() after the backfill test: the listener thread and the interval    *)
(* loop, with run_once taken one read of `telegram` at a time.            *)

\* unexpected disconnections the broker or the network may cause
MaxDisconnects == 1

\* CONNACK result codes: accepted, refused
ResultCodes == {0, 5}

\* if mqtt_present: client.connect, callbacks, loop_start, the two subscribe
\* calls; then startTime = datetime.now()
SetupMqtt ==
    /\ pc = "mqtt"
    /\ \E mqtt_present \in BOOLEAN :
          listener' = IF mqtt_present
                      THEN [NoListener EXCEPT !.started = TRUE, !.connected = TRUE,
                                              !.subscriptions = {mqtt_topic, MeterTopic}]
                      ELSE NoListener
    /\ startTime' = now
    /\ pc' = "run_once"
    /\ UNCHANGED <<smartmeter_present, settings, v8_data, data, pvo_data,
                   last_consumed_power, last_consumed_energy, telegram,
                   telegram_midnight, csv_rows, pvo_calls, now,
                   frame, accepted_power, emitted_energy, baseline_day, window_day>>
    /\ UNCHANGED <<pvo_server, pvo_call, batch, day>>
    /\ UNCHANGED <<backfill, iteration, received, inverter, gw>>

\* if rc == 0: client.subscribe(mqtt_topic, 1)
Resubscribed == {mqtt_topic}

\* the connection is lost (rc != 0): the session of a client created with
\* the default clean_session ends, and on_disconnect calls client.connect
on_disconnect(rc) ==
    /\ rc # 0
    /\ listener.started /\ listener.connected
    /\ listener.disconnects < MaxDisconnects
    /\ listener' = [listener EXCEPT !.connected = FALSE, !.subscriptions = {},
                                    !.disconnects = @ + 1, !.rc = rc]
    /\ UNCHANGED <<loopVars, pvo_server, pvo_call, batch, day>>
    /\ UNCHANGED <<backfill, iteration, received, inverter, gw>>

Disconnect == \E rc \in ResultCodes \ {0} : on_disconnect(rc)

\* the broker answers the connect request of on_disconnect
on_connect(rc) ==
    /\ listener.started /\ ~listener.connected
    /\ listener' = IF rc = 0
                   THEN [listener EXCEPT !.connected = TRUE,
                                         !.subscriptions = @ \cup Resubscribed,
                                         !.rc = rc]
                   ELSE [listener EXCEPT !.rc = rc]
    /\ UNCHANGED <<loopVars, pvo_server, pvo_call, batch, day>>
    /\ UNCHANGED <<backfill, iteration, received, inverter, gw>>

ConnAck == \E rc \in ResultCodes : on_connect(rc)

\* the network thread hands a message of a subscribed topic to on_message
Deliver ==
    /\ listener.started /\ listener.connected
    /\ \E message \in Messages :
          /\ message[1] \in listener.subscriptions
          /\ on_message(message[1], message[2])
    /\ UNCHANGED received

\* the loop calls run_once only from its own position in the while loop
CanEnter_Anytime(p) == p \in {"run_once", "line202", "line215"}

CanEnter(p) == p = "run_once"

\* run_once reaches returndata(telegram, telegram_midnight)
ReachesMeter(fetched, t195) ==
    /\ fetched # None
    /\ ~SkipOffline(settings.skip_offline, Val(fetched).status)
    /\ MeterAvailable(smartmeter_present, t195)

\* run_once reaches telegram_midnight=telegram
ReachesCapture(meter_data) == meter_data # None /\ InGraceWindow(now)

\* run_once up to `if smartmeter_present and len(telegram)`
Enter ==
    /\ CanEnter(pc)
    /\ Iteration < MaxIterations
    /\ \E sun_up \in SunUpChoices(settings.city),
          fetched \in {None} \cup {Some(rd) : rd \in Readings} :
          IF ReachesMeter(fetched, telegram)
          THEN /\ iteration' = [running |-> iteration.running + 1,
                                started |-> iteration.started + 1,
                                reads |-> <<telegram>>, sun_up |-> sun_up,
                                fetched |-> fetched, meter_data |-> None]
               /\ pc' = "line202"
               /\ UNCHANGED <<frame, pvo_data, last_consumed_power,
                              last_consumed_energy, telegram_midnight, csv_rows,
                              accepted_power, emitted_energy, baseline_day,
                              window_day>>
          ELSE /\ iteration' = [running |-> iteration.running,
                                started |-> iteration.started + 1,
                                reads |-> <<telegram>>, sun_up |-> sun_up,
                                fetched |-> fetched, meter_data |-> None]
               /\ pc' = "after"
               /\ Return(run_once_reads(sun_up, fetched, None, telegram, telegram))
    /\ UNCHANGED <<smartmeter_present, settings, v8_data, data, telegram,
                   pvo_calls, startTime, now>>
    /\ UNCHANGED <<pvo_server, pvo_call, batch, day>>
    /\ UNCHANGED <<backfill, listener, received, inverter, gw>>

\* meter_data = smartmeter_mqtt.returndata(telegram, telegram_midnight), and
\* the rest of run_once when the call is outside the grace window
ReadMeter ==
    /\ pc = "line202"
    /\ \E meter_data \in returndata(telegram, telegram_midnight) :
          IF ReachesCapture(meter_data)
          THEN /\ iteration' = [iteration EXCEPT !.reads = Append(@, telegram),
                                                 !.meter_data = meter_data]
               /\ pc' = "line215"
               /\ UNCHANGED <<frame, pvo_data, last_consumed_power,
                              last_consumed_energy, telegram_midnight, csv_rows,
                              accepted_power, emitted_energy, baseline_day,
                              window_day>>
          ELSE /\ iteration' = [iteration EXCEPT !.reads = Append(@, telegram),
                                                 !.meter_data = meter_data,
                                                 !.running = @ - 1]
               /\ pc' = "after"
               /\ Return(run_once_reads(iteration.sun_up, iteration.fetched,
                                        meter_data, iteration.reads[1],
                                        iteration.reads[1]))
    /\ UNCHANGED <<smartmeter_present, settings, v8_data, data, telegram,
                   pvo_calls, startTime, now>>
    /\ UNCHANGED <<pvo_server, pvo_call, batch, day>>
    /\ UNCHANGED <<backfill, listener, received, inverter, gw>>

\* telegram_midnight=telegram, then print (telegram_)
Capture ==
    /\ pc = "line215"
    /\ iteration' = [iteration EXCEPT !.reads = Append(@, telegram),
                                      !.running = @ - 1]
    /\ pc' = "after"
    /\ Return(run_once_reads(iteration.sun_up, iteration.fetched,
                             iteration.meter_data, iteration.reads[1], telegram))
    /\ UNCHANGED <<smartmeter_present, settings, v8_data, data, telegram,
                   pvo_calls, startTime, now>>
    /\ UNCHANGED <<pvo_server, pvo_call, batch, day>>
    /\ UNCHANGED <<backfill, listener, received, inverter, gw>>

NextRun ==
    \/ StartCopy \/ DaySample \/ DayRescale \/ CopyEntries \/ CopyFailed
    \/ CopyExit \/ NoCopy \/ SetupMqtt
    \/ Disconnect \/ ConnAck \/ Deliver
    \/ Enter \/ ReadMeter \/ Capture \/ Break \/ Sleep

SpecRun == InitRun /\ [][NextRun]_vars

----------------------------------------------------------------------------
(* on_message alone, after any sequence of deliveries *)

\* messages handed to on_message in one history
MaxMessages == 3

\* the messages of the loop, with more payloads on the user topic
ListenerMessages ==
    Messages \cup {<<mqtt_topic, <<"22">>>>, <<mqtt_topic, <<>>>>}

InitListener ==
    /\ LoopAtRest
    /\ pvo_server = <<>>
    /\ pvo_call = [outcome |-> "none"]
    /\ batch = [pc |-> "idle"]
    /\ day = [pc |-> "idle"]
    /\ RunAtRest

Receive ==
    /\ Len(received) < MaxMessages
    /\ \E message \in ListenerMessages :
          /\ on_message(message[1], message[2])
          /\ received' = Append(received, message)

NextListener == Receive

SpecListener == InitListener /\ [][NextListener]_vars

----------------------------------------------------------------------------
(* GoodWeApi.getCurrentReadings on the payload of the monitor-detail call. *)
(* Voltages, powers and currents are floats in tenths; the two averaged    *)
(* voltages of the result are kept as fractions num/den.                   *)

\* inverters in one payload
MaxInverters == 2

\* status codes of an inverter: offline, normal, fault
StatusCodes == {-1, 1, 2}

\* the current of a string, 4.0 A
StringCurrent == 40

\* one element of data['inverter']: output_voltage is None for a text that
\* is no number; vpv1 and vpv2 are the string voltages of inverterData['d']
InverterData ==
    [status : StatusCodes, out_pac : {0, 12004},
     output_voltage : {None, Some(2301)},
     vpv1 : {0, 3105, 65535}, vpv2 : {0, 3107}]

Payloads == UNION {[1..n -> InverterData] : n \in 1..MaxInverters}

\* labels[status] if status in labels else 'Unknown'
statusText(status) ==
    CASE status = -1 -> "Offline"
      [] status = 0 -> "Waiting"
      [] status = 1 -> "Normal"
      [] status = 2 -> "Fault"
      [] OTHER -> "Unknown"

\* float(value.rstrip(unit)), or 0 on ValueError
parseValue(value) == IF value = None THEN 0 ELSE Val(value)

RECURSIVE SumSeq(_)
SumSeq(seq) == IF seq = <<>> THEN 0 ELSE Head(seq) + SumSeq(Tail(seq))

\* the voltages of the strings present that are not 0 and below 6553 V
pv_voltages(d) == SelectSeq(<<d.vpv1, d.vpv2>>, LAMBDA v : v # 0 /\ v < 65530)

\* sum(pv_voltages)/len(pv_voltages) divides by zero for an empty list
calcPvVoltageRaises(d) == pv_voltages(d) = <<>>

\* round(sum(pv_voltages)/len(pv_voltages), 1)
calcPvVoltage(d) == RoundDiv(SumSeq(pv_voltages(d)), Len(pv_voltages(d)))

\* the result of getCurrentReadings, or the exception it raises
getCurrentReadings(inverters) ==
    LET normal == SelectSeq(inverters, LAMBDA i : statusText(i.status) = "Normal")
        count == Len(normal)
        first == inverters[1]
        strings(inverterData) ==
            [vpv1 |-> inverterData.vpv1, vpv2 |-> inverterData.vpv2,
             Ppv1 |-> (inverterData.vpv1 * StringCurrent) \div 10,
             Ppv2 |-> (inverterData.vpv2 * StringCurrent) \div 10]
        raised == [outcome |-> "raised", error |-> "ZeroDivisionError", result |-> None]
    IN  IF \E k \in 1..count : calcPvVoltageRaises(normal[k]) THEN raised
        ELSE IF count > 0
        THEN [outcome |-> "returned", error |-> "",
              result |-> Some(
                [status |-> "Normal",
                 pgrid_w |-> SumSeq([k \in 1..count |-> normal[k].out_pac]),
                 eday_kwh |-> 52000 * count,
                 grid_voltage |->
                    [num |-> SumSeq([k \in 1..count |-> parseValue(normal[k].output_voltage)]),
                     den |-> count],
                 pv_voltage |->
                    [num |-> SumSeq([k \in 1..count |-> calcPvVoltage(normal[k])]),
                     den |-> count],
                 temperature |-> 405]
                @@ strings(inverters[Len(inverters)]))]
        ELSE IF calcPvVoltageRaises(first) THEN raised
        ELSE [outcome |-> "returned", error |-> "",
              result |-> Some(
                [status |-> statusText(first.status),
                 pgrid_w |-> first.out_pac,
                 eday_kwh |-> 0,
                 grid_voltage |-> [num |-> parseValue(first.output_voltage), den |-> 1],
                 pv_voltage |-> [num |-> calcPvVoltage(first), den |-> 1],
                 temperature |-> 405]
                @@ strings(first))]

InitReadings ==
    /\ LoopAtRest
    /\ pvo_server = <<>>
    /\ pvo_call = [outcome |-> "none"]
    /\ batch = [pc |-> "idle"]
    /\ day = [pc |-> "idle"]
    /\ backfill = [pc |-> "idle"]
    /\ listener = NoListener
    /\ iteration = NoIteration
    /\ received = <<>>
    /\ \E payload \in Payloads :
          inverter = [pc |-> "called", payload |-> payload,
                      outcome |-> "none", error |-> "", result |-> None]
    /\ gw = [pc |-> "idle"]

\* data = gw.getCurrentReadings()
GetCurrentReadings ==
    /\ inverter.pc = "called"
    /\ LET res == getCurrentReadings(inverter.payload)
       IN  inverter' = [inverter EXCEPT !.pc = "ended", !.outcome = res.outcome,
                                        !.error = res.error, !.result = res.result]
    /\ UNCHANGED <<loopVars, pvo_server, pvo_call, batch, day>>
    /\ UNCHANGED <<backfill, listener, iteration, received, gw>>

NextReadings == GetCurrentReadings

SpecReadings == InitReadings /\ [][NextReadings]_vars

----------------------------------------------------------------------------
(* GoodWeApi.call.  The SEMS portal is given by its replies to the data    *)
(* request of each attempt of one call, and to the login request that      *)
(* follows a reply with code 100001.                                       *)
(* The client keeps a log of its requests with the URL and the token they  *)
(* carried, and of the sessions it stored.                                 *)

\* calls made with one client
MaxCalls == 2

\* self.token and self.global_url of __init__
InitialToken == "ios"
GlobalUrl == "semsportal.com"

\* replies to a login request: a session (token and api URL), a reply
\* without 'api', no usable response
Logins == {[kind |-> "granted", token |-> "T1", api |-> "eu.semsportal.com"],
           [kind |-> "granted", token |-> "T2", api |-> "au.semsportal.com"],
           [kind |-> "denied", token |-> "", api |-> ""],
           [kind |-> "failed", token |-> "", api |-> ""]}

\* replies to a data request: code 0 with data, another code, no usable
\* response (RequestException), code 100001 with the reply to the login
Replies ==
    {[kind |-> k, login |-> [kind |-> "none", token |-> "", api |-> ""]] :
        k \in {"data", "refused", "failed"}}
    \cup {[kind |-> "expired", login |-> l] : l \in Logins}

Request(path, url, token) == [op |-> "post", path |-> path, url |-> url, token |-> token]
Stored(token, api) == [op |-> "stored", token |-> token, api |-> api]

\* Renewed that keeps the old base URL
Renewed_TokenOnly(client, login) ==
    [client EXCEPT !.token = login.token,
                   !.log = Append(@, Stored(login.token, login.api))]

\* self.base_url = data['api']; self.token = json.dumps(data['data'])
Renewed(client, login) ==
    [client EXCEPT !.token = login.token, !.base_url = login.api,
                   !.log = Append(@, Stored(login.token, login.api))]

\* time.sleep(i ** 3) at the end of an iteration of the loop
Paused(client, i) == [client EXCEPT !.log = Append(@, Slept(Backoff(i)))]

\* the for loop of call from iteration i on
RECURSIVE GoodWeAttempt(_, _, _)
GoodWeAttempt(i, client, replies) ==
    IF i \notin 1..3
    THEN [client EXCEPT !.outcome = "raised", !.error = "too many retries"]
    ELSE
    LET sent == [client EXCEPT
                   !.log = Append(@, Request("data", client.base_url, client.token))]
    IN
    CASE replies[i].kind = "data" -> [sent EXCEPT !.outcome = "returned", !.error = ""]
      [] replies[i].kind = "refused" -> [sent EXCEPT !.outcome = "raised", !.error = "code"]
      [] replies[i].kind = "failed" -> GoodWeAttempt(i + 1, Paused(sent, i), replies)
      [] replies[i].kind = "expired" ->
           LET asked == [sent EXCEPT
                           !.log = Append(@, Request("login", GlobalUrl, client.token))]
               login == replies[i].login
           IN  CASE login.kind = "granted" ->
                      GoodWeAttempt(i + 1, Paused(Renewed(asked, login), i), replies)
                 [] login.kind = "denied" ->
                      [asked EXCEPT !.outcome = "raised", !.error = "msg"]
                 [] login.kind = "failed" ->
                      GoodWeAttempt(i + 1, Paused(asked, i), replies)

GoodWeCall(client, replies) ==
    GoodWeAttempt(1, [client EXCEPT !.calls = @ + 1], replies)

InitGoodWe ==
    /\ LoopAtRest
    /\ pvo_server = <<>>
    /\ pvo_call = [outcome |-> "none"]
    /\ batch = [pc |-> "idle"]
    /\ day = [pc |-> "idle"]
    /\ backfill = [pc |-> "idle"]
    /\ listener = NoListener
    /\ iteration = NoIteration
    /\ received = <<>>
    /\ inverter = [pc |-> "idle"]
    /\ gw = [pc |-> "ready", token |-> InitialToken, base_url |-> GlobalUrl,
             log |-> <<>>, calls |-> 0, outcome |-> "none", error |-> ""]

\* one call of the client, whatever the previous one gave
GwCall ==
    /\ gw.pc = "ready"
    /\ gw.calls < MaxCalls
    /\ \E replies \in [1..3 -> Replies] : gw' = GoodWeCall(gw, replies)
    /\ UNCHANGED <<loopVars, pvo_server, pvo_call, batch, day>>
    /\ UNCHANGED <<backfill, listener, iteration, received, inverter>>

NextGoodWe == GwCall

SpecGoodWe == InitGoodWe /\ [][NextGoodWe]_vars

----------------------------------------------------------------------------
(* The interval loop with iterations that take time: run_once starts at    *)
(* `now` and the clock has advanced by its duration when it returns.       *)

\* iterations of one run
MaxRuns == 3

\* seconds one run_once may take: none, less than an interval, exactly one,
\* more than one, more than a day
Durations == {0, 1, 299, 300, 301, 1799, DaySeconds + 7}

InitSchedule ==
    /\ smartmeter_present = FALSE
    /\ \E minutes \in Intervals :
          settings = [skip_offline |-> FALSE, csv |-> FALSE, pv_voltage |-> FALSE,
                      city |-> FALSE, pvo_interval |-> Some(minutes)]
    /\ v8_data = None
    /\ data = <<>>
    /\ pvo_data = [k \in keys |-> None]
    /\ last_consumed_power = DefaultConsumedPower
    /\ last_consumed_energy = DefaultConsumedEnergy
    /\ telegram = <<>>
    /\ telegram_midnight = <<>>
    /\ csv_rows = 0
    /\ pvo_calls = 0
    /\ startTime \in {DaySeconds - 7, DaySeconds + 43200}
    /\ now = startTime
    /\ pc = "run_once"
    /\ frame = [outcome |-> "none"]
    /\ accepted_power = DefaultConsumedPower
    /\ emitted_energy = None
    /\ baseline_day = -1
    /\ window_day = -1
    /\ pvo_server = <<>>
    /\ pvo_call = [outcome |-> "none"]
    /\ batch = [pc |-> "idle"]
    /\ day = [pc |-> "idle"]
    /\ RunAtRest

\* try: run_once(pvo_data, data, args, city) except Exception: logged; the
\* call took `seconds`
RunOnceTakes ==
    /\ pc = "run_once"
    /\ iteration.started < MaxRuns
    /\ \E fetched \in {None} \cup {Some(rd) : rd \in Readings}, seconds \in Durations :
          /\ Return(run_once(TRUE, fetched, None))
          /\ now' = now + seconds
    /\ iteration' = [iteration EXCEPT !.started = @ + 1]
    /\ pc' = "after"
    /\ UNCHANGED <<smartmeter_present, settings, v8_data, data, telegram,
                   pvo_calls, startTime>>
    /\ UNCHANGED <<pvo_server, pvo_call, batch, day>>
    /\ UNCHANGED <<backfill, listener, received, inverter, gw>>

NextSchedule == RunOnceTakes \/ Sleep

SpecSchedule == InitSchedule /\ [][NextSchedule]_vars

----------------------------------------------------------------------------
(* Properties *)

\* a step that is one call of run_once
RunOnceStep == pc = "run_once" /\ pc' = "after"

Completed == frame.outcome = "completed"

NoRecord == [k \in keys |-> None]

\* C1: within one calendar day the consumed energy v3 of a record is never
\* less than the v3 of the record before it.
C1_EnergyMonotone ==
    [][ ( /\ RunOnceStep
          /\ frame'.outcome = "completed"
          /\ "v3" \in DOMAIN pvo_data'
          /\ emitted_energy # None
          /\ emitted_energy[1] = Day(now) )
        => Val(pvo_data'["v3"]) >= emitted_energy[2] ]_vars

\* C2: the consumed power v4 of every record is >= 0.
C2_PowerNonNegative ==
    (Completed /\ "v4" \in DOMAIN pvo_data) => Val(pvo_data["v4"]) >= 0

\* a record whose computed consumed power was negative and was replaced
C2_Witness ==
    /\ Completed
    /\ "v4" \in DOMAIN pvo_data
    /\ IsSome(frame.computed_power)
    /\ Val(frame.computed_power) < 0
    /\ Val(pvo_data["v4"]) = DefaultConsumedPower

\* C3: last_consumed_power holds the last accepted non-negative consumed
\* power, and a negative computed power is replaced by it.
C3_ClampToLastAccepted ==
    /\ last_consumed_power = accepted_power
    /\ ( /\ Completed
         /\ IsSome(frame.computed_power)
         /\ Val(frame.computed_power) < 0 )
       => Val(pvo_data["v4"]) = accepted_power

\* C4: a call inside the grace window with meter data completes and leaves
\* last_consumed_energy at the consumed energy computed in that call.
C4_MidnightReset ==
    ( /\ frame.outcome # "none"
      /\ frame.in_grace
      /\ IsSome(frame.meter_data) )
    => /\ Completed
       /\ last_consumed_energy =
             PyRound(Val(frame.meter_data).import_energy
                     - Val(frame.meter_data).export_energy)

\* C5: a call inside the grace window makes the current message the
\* midnight baseline and uses import and export energy zero (here for calls
\* that already hold a baseline).
C5_BaselineCapture ==
    [][ ( /\ RunOnceStep
          /\ InGraceWindow(now)
          /\ telegram_midnight # <<>>
          /\ IsSome(frame'.meter_data) )
        => /\ telegram_midnight' = telegram
           /\ Val(frame'.meter_data).import_energy = 0
           /\ Val(frame'.meter_data).export_energy = 0 ]_vars

\* C6: once the baseline is captured in a grace window, a further call in
\* the same window leaves it as it is.
C6_ResetIdempotent ==
    [][ ( /\ RunOnceStep
          /\ InGraceWindow(now)
          /\ baseline_day = Day(now) )
        => telegram_midnight' = telegram_midnight ]_vars

\* C7: when a call is due after the grace window of a day that began while
\* the process was running, a call was made inside that day's window.
C7_DailyReset ==
    ( /\ pc = "run_once"
      /\ Day(now) > Day(startTime)
      /\ ~InGraceWindow(now) )
    => window_day = Day(now)

GenerationKeys == {"v1", "v2", "v9", "v10", "v11", "v12"}

\* C8: a record built with sun_up has v1 and v2; a record built without
\* sun_up has none of v1, v2, v9, v10, v11, v12.
C8_DaylightGating ==
    Completed =>
        /\ frame.sun_up =>
              /\ {"v1", "v2"} \subseteq DOMAIN pvo_data
              /\ IsSome(pvo_data["v1"])
              /\ IsSome(pvo_data["v2"])
        /\ ~frame.sun_up => DOMAIN pvo_data \cap GenerationKeys = {}

\* a night record that carries consumption
C8_Witness ==
    /\ Completed
    /\ ~frame.sun_up
    /\ "v3" \in DOMAIN pvo_data

\* C9: with skip_offline and an Offline reading the call returns without a
\* record, an upload, a CSV row or a change of the counters and baseline.
C9_SkipOffline ==
    [][ ( /\ RunOnceStep
          /\ settings.skip_offline
          /\ frame'.status = Some("Offline") )
        => /\ frame'.outcome = "skipped"
           /\ pvo_data' = NoRecord
           /\ pvo_calls' = pvo_calls
           /\ csv_rows' = csv_rows
           /\ last_consumed_energy' = last_consumed_energy
           /\ last_consumed_power' = last_consumed_power
           /\ telegram_midnight' = telegram_midnight ]_vars

\* a skipped call inside the grace window with a meter message at hand
C9_Witness ==
    /\ frame.outcome = "skipped"
    /\ frame.in_grace
    /\ frame.meter
    /\ settings.csv

\* C10: a call without a meter snapshot still completes, and its record has
\* neither v3 nor v4.
C10_NoMeterNoConsumption ==
    ( /\ frame.outcome \notin {"none", "skipped"}
      /\ IsSome(frame.status)
      /\ ~frame.meter )
    => /\ Completed
       /\ DOMAIN pvo_data \cap {"v3", "v4"} = {}

\* C11: outside the grace window, when the computed consumed energy is not
\* below last_consumed_energy the emitted v3 is the imported energy minus the
\* exported energy plus the generated energy of today, rounded to whole Wh,
\* and when the computed consumed power is not negative the emitted v4 is the
\* imported power minus the exported power plus the generated power, rounded
\* to whole W.
C11_ConsumptionFormula ==
    (Completed /\ IsSome(frame.meter_data) /\ ~frame.in_grace) =>
        LET md == Val(frame.meter_data)
            energy == md.import_energy - md.export_energy
                      + 10 * Val(frame.generated_energy)
            power == md.import_power - md.export_power
                     + 10 * Val(frame.generated_power)
        IN  /\ (Val(frame.computed_energy) >= last_consumed_energy) =>
                    /\ 10 * Val(pvo_data["v3"]) - energy \in -5..5
                    /\ Val(pvo_data["v3"]) = Val(frame.computed_energy)
            /\ (Val(frame.computed_power) >= 0) =>
                    /\ 10 * Val(pvo_data["v4"]) - power \in -5..5
                    /\ Val(pvo_data["v4"]) = Val(frame.computed_power)

\* import 3000 Wh, export 500 Wh and 5.2 kWh generated give 7700 Wh
C11_Witness ==
    /\ Completed /\ IsSome(frame.meter_data) /\ ~frame.in_grace
    /\ Val(frame.meter_data).import_energy = 30000
    /\ Val(frame.meter_data).export_energy = 5000
    /\ frame.generated_energy = Some(5200)
    /\ pvo_data["v3"] = Some(7700)
    /\ Val(frame.computed_power) >= 0
    /\ pvo_data["v4"] = Some(1500)

----------------------------------------------------------------------------
(* Properties of PVOutputApi.call *)

CallEnded == pvo_call.outcome \in {"success", "exhausted", "raised"}

\* the statuses of the POSTs and the lengths of the sleeps, in order
Posts(log) == SelectSeq(log, LAMBDA e : e.op = "post")
Sleeps(log) == LET sl == SelectSeq(log, LAMBDA e : e.op = "sleep")
               IN  [k \in 1..Len(sl) |-> sl[k].arg]

\* the first n answers of the server all have status st
FirstAre(n, st) == \A k \in 1..n : pvo_server[k].status = st

\* the log begins and ends with a POST: every sleep lies between two attempts
SleepsBetweenAttempts(log) ==
    log # <<>> => (log[1].op = "post" /\ log[Len(log)].op = "post")

\* C12: call makes up to 4 attempts; when the first 3 fail with a non-2xx,
\* non-403 response and the 4th succeeds, the call ends in success after
\* exactly the sleeps 1, 8, 27, each between two attempts.
C12_FourAttempts ==
    (CallEnded /\ FirstAre(3, ServerError) /\ pvo_server[4].status = Ok) =>
        /\ pvo_call.outcome = "success"
        /\ Sleeps(pvo_call.log) = <<1, 8, 27>>
        /\ SleepsBetweenAttempts(pvo_call.log)

\* C12 (amended): call makes up to 3 attempts; when the first 2 fail with a
\* non-2xx, non-403 response and the 3rd succeeds, the call ends in success
\* after exactly the sleeps 1, 8, each between two attempts.
C12_ThreeAttempts ==
    CallEnded =>
        /\ Len(Posts(pvo_call.log)) <= 3
        /\ (FirstAre(2, ServerError) /\ pvo_server[3].status = Ok) =>
               /\ pvo_call.outcome = "success"
               /\ pvo_call.log = <<Post(ServerError), Slept(1), Post(ServerError),
                                   Slept(8), Post(Ok)>>

C12_Witness ==
    /\ pvo_call.outcome = "success"
    /\ FirstAre(2, ServerError)
    /\ Sleeps(pvo_call.log) = <<1, 8>>

\* every attempt failed with a non-2xx response (a 403 with a reset time
\* that is not in the past)
AllNon2xx == \A k \in 1..Len(Posts(pvo_call.log)) :
                /\ pvo_server[k].status \in {ServerError, Forbidden}
                /\ pvo_server[k].reset >= 0

\* C13: when every attempt of a call fails with a non-2xx response, the call
\* performs exactly 3 sleeps and ends exhausted, with the error logged and
\* without raising, so that the interval loop goes on.
C13_ExhaustedAfterThreeSleeps ==
    (CallEnded /\ pvo_call.outcome # "success" /\ AllNon2xx) =>
        /\ pvo_call.outcome = "exhausted"
        /\ Len(Sleeps(pvo_call.log)) = 3

\* every attempt failed with a non-2xx response other than 403
AllServerErrors == \A k \in 1..Len(Posts(pvo_call.log)) :
                      pvo_server[k].status = ServerError

\* C13 (amended): when every attempt of a call fails with a non-2xx response
\* other than 403, the call performs exactly 3 sleeps and ends exhausted,
\* with the error logged and without raising.
C13_ExhaustedAfterThreeSleepsNo403 ==
    (CallEnded /\ pvo_call.outcome # "success" /\ AllServerErrors) =>
        /\ pvo_call.outcome = "exhausted"
        /\ pvo_call.error = ""
        /\ Len(Sleeps(pvo_call.log)) = 3

C13_Witness ==
    /\ pvo_call.outcome = "exhausted"
    /\ AllServerErrors
    /\ Len(Posts(pvo_call.log)) = 3
    /\ Sleeps(pvo_call.log) = <<1, 8, 27>>

\* the server answers n times 403, with reset times not in the past, then 2xx
Leading403(n) ==
    /\ \A k \in 1..n : pvo_server[k].status = Forbidden /\ pvo_server[k].reset >= 0
    /\ pvo_server[n + 1].status = Ok

C15_TransportFailureRetried ==
    CallEnded =>
        /\ \A p \in 1..Len(pvo_call.log) :
              pvo_call.log[p] = Post(NoResponse) =>
                  /\ p < Len(pvo_call.log)
                  /\ pvo_call.log[p + 1].op = "sleep"
        /\ pvo_call.error # "UnboundLocalError"

----------------------------------------------------------------------------
(* Properties of PVOutputApi.add_day *)

AddDayEnded == batch.pc \in {"done", "raised"}

RECURSIVE Concat(_)
Concat(chunks) == IF chunks = <<>> THEN <<>> ELSE Head(chunks) \o Concat(Tail(chunks))

\* the least integer that is not below n / d
CeilDiv(n, d) == (n + d - 1) \div d

\* C16: for a list of N day entries add_day issues exactly ceil(N / 30) upload
\* calls, each with at most 30 rows, and the rows of all calls concatenated
\* are the rows of the N entries in their order, each exactly once.
C16_Batches ==
    AddDayEnded =>
        /\ Len(batch.calls) = CeilDiv(Len(batch.entries), 30)
        /\ \A c \in 1..Len(batch.calls) : Len(batch.calls[c]) <= 30
        /\ Concat(batch.calls) = [k \in 1..Len(batch.entries) |-> Row(batch.entries[k])]

----------------------------------------------------------------------------
(* Properties of GoodWeApi.getDayReadings *)

DayEnded == day.pc \in {"done", "raised"}

Abs(x) == IF x < 0 THEN -x ELSE x

\* C17: with an integrated total T_int > 0 and an authoritative total
\* T_actual > 0 the energy of every returned entry is its integrated energy
\* times T_actual / T_int, and the energy of the last entry is T_actual up to
\* the rounding of its integrated energy to 1 Wh (at most half a Wh in T_int).
C17_Rescaled ==
    (day.pc = "done" /\ day.kwh > 0 /\ day.actual > 0) =>
        /\ Len(day.entries) = Len(day.integrated)
        /\ day.entries # <<>>
        /\ \A j \in 1..Len(day.entries) :
              LET e == day.entries[j].eday_kwh
              IN  /\ e.den # 0
                  \* e = integrated * T_actual / T_int, T_int = kwh / 60 Wh
                  /\ e.num * day.kwh = day.integrated[j] * day.actual * 60 * e.den
        /\ LET e == day.entries[Len(day.entries)].eday_kwh
           IN  /\ e.den > 0
               /\ Abs(e.num - day.actual * e.den) * day.kwh <= 30 * day.actual * e.den

C17_Witness ==
    /\ day.pc = "done" /\ day.kwh > 0 /\ day.actual > 0
    /\ Len(day.entries) >= 2
    /\ day.integrated[1] # day.integrated[2]
    /\ LET e == day.entries[Len(day.entries)].eday_kwh
       IN  e.num # day.actual * e.den

\* C18: when the authoritative total is > 0 and the integrated total is zero,
\* getDayReadings applies no rescaling, returns the entries unchanged and
\* does not fail.
C18_NoRescaleOnZero ==
    (DayEnded /\ day.actual > 0 /\ day.kwh = 0) =>
        /\ day.pc = "done"
        /\ \A j \in 1..Len(day.entries) :
              day.entries[j].eday_kwh = [num |-> day.integrated[j], den |-> 1]

\* a step that is one iteration of the loop over the samples
DaySampleStep == day.pc = "loop" /\ day'.pc = "loop" /\ day'.k = day.k + 1

\* C19: the running energy is built by trapezoidal integration: for two
\* consecutive samples (here both with power > 0) the energy added is the
\* mean of their powers times the elapsed fractional hours.
C19_Trapezoid ==
    [][(DaySampleStep /\ day.k >= 2) =>
          LET this == day.pacs[day.k]
              prev == day.pacs[day.k - 1]
          IN  (this.pac > 0 /\ prev.pac > 0) =>
                 2 * (day'.kwh - day.kwh) =
                    (prev.pac + this.pac) * (Hours(this.date) - Hours(prev.date))]_vars

\* C19 (amended): the running energy is built by a rectangle rule: a sample
\* with power > 0 adds its own power times the elapsed fractional hours since
\* the previous sample (since midnight for the first sample), and a sample
\* with power <= 0 adds nothing.
C19_Rectangle ==
    [][DaySampleStep =>
          LET this == day.pacs[day.k]
              since == IF day.k = 1 THEN 0 ELSE Hours(day.pacs[day.k - 1].date)
          IN  day'.kwh - day.kwh =
                 IF this.pac > 0 THEN this.pac * (Hours(this.date) - since) ELSE 0]_vars

\* 5 W at 00:00:00 and 13 W at 00:20:30 integrate to 13 W * 20 min
C19_Witness ==
    /\ day.pc = "loop" /\ day.k = 3
    /\ day.pacs[1] = [date |-> 0, pac |-> 5]
    /\ day.pacs[2] = [date |-> 1230, pac |-> 13]
    /\ day.kwh = 260

\* the samples with power > 0, as <<date, power>>
Positive(pacs) ==
    LET sel == SelectSeq(pacs, LAMBDA sample : sample.pac > 0)
    IN  [j \in 1..Len(sel) |-> <<sel[j].date, sel[j].pac>>]

\* C20: getDayReadings returns exactly one entry for every sample with
\* power > 0, in the order of the samples, and none for a sample with
\* power <= 0.
C20_EntryPerPositiveSample ==
    DayEnded =>
        /\ day.pc = "done"
        /\ [j \in 1..Len(day.entries) |->
               <<day.entries[j].dt, day.entries[j].pgrid_w>>] = Positive(day.pacs)

\* copy() has ended on the logging branch after getDayReadings returned
CopyLogged ==
    /\ backfill.pc = "ended" /\ ~backfill.credentials /\ day.pc = "done"

\* C21: when copy runs without a PVOutput system id or API key, every day
\* entry returned by getDayReadings is handed to the logger, one log record
\* per entry in the order of the entries, and copy ends without an error.
C21_AllEntriesLogged ==
    CopyLogged =>
        /\ backfill.outcome = "returned"
        /\ backfill.logged = day.entries

\* a run_once call of the interval loop returns or raises
RunOnceEnds == pc \in {"run_once", "line202", "line215"} /\ pc' = "after"

\* C22: every run_once that is not skipped by the offline policy and whose
\* reconciliation completes hands its record to PVOutputApi.add_status
\* exactly once when the PVOutput credentials are configured.
C22_RecordUploaded ==
    [][(RunOnceEnds /\ backfill.credentials /\ frame'.outcome = "completed")
          => pvo_calls' = pvo_calls + 1]_vars

\* a step that starts a run_once call
RunOnceStarts == iteration'.started = iteration.started + 1

RaisedInLoop ==
    /\ pc = "after" /\ frame.outcome = "raised"
    /\ settings.pvo_interval # None

\* C24: with an interval configured, a failure raised inside run_once is
\* caught at the loop boundary: the process does not terminate, and the loop
\* is back at its run_once call after the wait to the next interval boundary.
C24_FailureSurvived ==
    [][RaisedInLoop =>
          /\ pc' \in {"after", "run_once"}
          /\ pc' = "run_once" =>
                LET interval == Val(settings.pvo_interval) * 60
                IN  /\ now' > now /\ now' - now <= interval
                    /\ (now' - startTime) % interval = 0]_vars

\* the five-minute window made run_once raise, and the loop waited and is at
\* its next call
C24_Witness ==
    /\ pc = "run_once"
    /\ frame.outcome = "raised" /\ frame.error = "NameError"
    /\ now > startTime

\* C25: a run_once that raises leaves last_consumed_energy,
\* last_consumed_power and telegram_midnight exactly as they were before it.
C25_RaiseLeavesState ==
    [][(RunOnceStep /\ frame'.outcome = "raised") =>
          /\ last_consumed_energy' = last_consumed_energy
          /\ last_consumed_power' = last_consumed_power
          /\ telegram_midnight' = telegram_midnight]_vars

\* C26: within one run_once every use of the pushed meter message (the
\* presence test, the meter computation, the capture of the midnight
\* baseline) sees the one value that was current at the first read; a
\* message delivered while run_once runs affects later iterations only.
C26_SingleSnapshot ==
    \A i \in 1..Len(iteration.reads) : iteration.reads[i] = iteration.reads[1]

\* the payloads received on a topic, in the order of their delivery
OnTopic(topic) ==
    LET sel == SelectSeq(received, LAMBDA message : message[1] = topic)
    IN  [j \in 1..Len(sel) |-> sel[j][2]]

\* the last element of a sequence, or a default for the empty sequence
LastOr(seq, default) == IF seq = <<>> THEN default ELSE seq[Len(seq)]

\* C27: after any sequence of on_message calls, telegram is the payload of
\* the most recent 'beeclear' message and v8_data is the first
\* space-separated token of the most recent message on the user topic;
\* a message on another topic changes neither, and on_message never writes
\* the consumption counters or the midnight baseline.
C27_LatestValueWins ==
    /\ telegram = LastOr(OnTopic(MeterTopic), <<>>)
    /\ v8_data = LET user == OnTopic(mqtt_topic)
                 IN  IF user = <<>> THEN None
                     ELSE Some(IF user[Len(user)] = <<>> THEN ""
                               ELSE Head(user[Len(user)]))
    /\ last_consumed_energy = DefaultConsumedEnergy
    /\ last_consumed_power = DefaultConsumedPower
    /\ telegram_midnight = <<>>

\* 'M1', then '21 x' on the user topic, then a message on another topic
C27_Witness ==
    /\ received = << <<MeterTopic, <<"M1">>>>, <<mqtt_topic, <<"21", "x">>>>,
                     <<"other", <<"21", "x">>>> >>
    /\ telegram = <<"M1">>
    /\ v8_data = Some("21")

\* C28: after an unexpected disconnection (rc != 0) the listener reconnects,
\* and once the broker accepted the connection it is subscribed again to
\* every topic it was subscribed to: the user topic and 'beeclear'.
C28_Resubscribed ==
    (listener.started /\ listener.connected) =>
        listener.subscriptions = {mqtt_topic, MeterTopic}

\* C29: when a backfill date is configured, run executes copy once and then
\* exits, whether copy succeeds or fails, without ever invoking run_once and
\* without starting the push listener.
C29_BackfillOnly ==
    backfill.date # None =>
        /\ pc \in {"start", "copy", "exit"}
        /\ backfill.copies = IF pc = "start" THEN 0 ELSE 1
        /\ pc = "exit" => backfill.pc = "ended"
        /\ iteration.started = 0 /\ frame.outcome = "none"
        /\ ~listener.started

\* copy raised on its first log record, and run has exited
C29_Witness ==
    /\ backfill.date # None
    /\ pc = "exit"
    /\ backfill.copies = 1
    /\ backfill.outcome = "raised" /\ backfill.error = "KeyError"

\* no inverter of the payload is Normal and the first one is offline
OfflinePayload(inverters) ==
    /\ \A k \in 1..Len(inverters) : inverters[k].status # 1
    /\ inverters[1].status = -1

\* C30: for every well-formed payload in which no inverter is Normal and the
\* first inverter has status code -1, whatever its voltage and power values,
\* getCurrentReadings returns a reading with status 'Offline' and does not
\* raise.
C30_OfflineIsStatus ==
    (inverter.pc = "ended" /\ OfflinePayload(inverter.payload)) =>
        /\ inverter.outcome = "returned"
        /\ Val(inverter.result).status = "Offline"

\* 'd': the local date of t; days are counted from day 0
DateField(t) == Day(t)

\* 't': "{:02}:{:02}".format(t.tm_hour, t.tm_min), the local time of t
\* truncated to the minute
TimeField(t) ==
    <<SecondsSinceMidnight(t) \div 3600, (SecondsSinceMidnight(t) % 3600) \div 60>>

\* C31: every upload record built by an iteration, with sun_up true or
\* false, contains the date field d and the time field t (local time at
\* minute resolution) of the moment of reconciliation.
C31_Timestamped ==
    Completed =>
        /\ {"d", "t"} \subseteq DOMAIN pvo_data
        /\ pvo_data["d"] = Some(DateField(now))
        /\ pvo_data["t"] = Some(TimeField(now))

C33_NightReusesStored ==
    [][( /\ RunOnceStep
         /\ frame.outcome # "none" /\ frame.status # None
         /\ ~frame'.sun_up )
       => /\ ~frame'.polled
          /\ frame'.status = frame.status]_vars

\* C34: every sleep duration that PVOutputApi.call requests is
\* non-negative, for every response and every value of the
\* X-Rate-Limit-Reset header, also for a reset time that already lies in the
\* past when a 403 is received: no sleep of the call has a negative length,
\* and time.sleep never refuses one (ValueError).
C34_SleepsNonNegative ==
    CallEnded =>
        /\ \A k \in 1..Len(Sleeps(pvo_call.log)) : Sleeps(pvo_call.log)[k] >= 0
        /\ pvo_call.error # "ValueError"

\* C35: PVOutputApi.call ends for every sequence of server responses, also
\* when the server answers 403 without end: it has issued at most 3 POSTs
\* and at most two sleeps per POST when it returns or raises.
C35_CallBounded ==
    /\ pvo_call.outcome \in {"none", "success", "exhausted", "raised"}
    /\ CallEnded =>
          /\ Len(Posts(pvo_call.log)) <= 3
          /\ Len(Sleeps(pvo_call.log)) <= 2 * Len(Posts(pvo_call.log))

\* the server answers 403 to every POST, and call gave up after the third
C35_Witness ==
    /\ \A k \in 1..Len(pvo_server) : pvo_server[k] = [status |-> Forbidden, reset |-> 2]
    /\ pvo_call.outcome = "exhausted"
    /\ Len(Posts(pvo_call.log)) = 3
    /\ Sleeps(pvo_call.log) = <<3, 1, 3, 8, 3, 27>>

\* the session in force at position k of the log: the one stored last before
\* k, or the one of __init__
SessionAt(log, k) ==
    LET stored == {j \in 1..(k - 1) : log[j].op = "stored"}
    IN  IF stored = {} THEN [token |-> InitialToken, api |-> GlobalUrl]
        ELSE LET j == CHOOSE j \in stored : \A h \in stored : h <= j
             IN  [token |-> log[j].token, api |-> log[j].api]

SleepStep == pc = "after" /\ pc' = "run_once"

\* C37: after every iteration, whatever its duration (also longer than one
\* interval, and across day boundaries), the sleep computed by run lies
\* between 1 and interval seconds inclusive, and the next iteration starts
\* at a whole multiple of the interval after startTime.
C37_Aligned ==
    [][SleepStep =>
          LET interval == Val(settings.pvo_interval) * 60
          IN  /\ now' - now >= 1
              /\ now' - now <= interval
              /\ (now' - startTime) % interval = 0]_vars

\* started 7 s before midnight; a call of 301 s, then one of more than a
\* day, and the loop is at its third call
C37_Witness ==
    /\ pc = "run_once"
    /\ iteration.started = 2
    /\ settings.pvo_interval = Some(5)
    /\ startTime = DaySeconds - 7
    /\ now = startTime + 600 + DaySeconds + 300

\* the rows of chunk c of a list of entries
ChunkRows(entries, c) ==
    LET chunk == Slice(entries, 30 * (c - 1))
    IN  [k \in 1..Len(chunk) |-> Row(chunk[k])]

\* C38: add_day attempts every chunk exactly once, in entry order, whatever
\* the outcome of the earlier chunks: the call of chunk c is made with the
\* rows of chunk c, also after a call that gave up or failed, and no call is
\* made twice.
C38_EveryChunkOnce ==
    AddDayEnded =>
        /\ Len(batch.calls) = CeilDiv(Len(batch.entries), 30)
        /\ \A c \in 1..CeilDiv(Len(batch.entries), 30) :
              /\ c <= Len(batch.calls)
              /\ batch.calls[c] = ChunkRows(batch.entries, c)

\* the samples are in non-decreasing time order
TimeOrdered(pacs) == \A j \in 1..(Len(pacs) - 1) : pacs[j].date <= pacs[j + 1].date

\* x <= y for fractions with positive denominators
FractionLeq(x, y) == x.num * y.den <= y.num * x.den

\* C39: for day samples given in non-decreasing time order, the
\* energy-so-far of the entries returned by getDayReadings is non-decreasing
\* in entry order, both as integrated (before the rescaling) and as returned
\* (after the rescaling by the authoritative total).
C39_EnergyMonotone ==
    (day.pc = "done" /\ TimeOrdered(day.pacs)) =>
        /\ \A j \in 1..(Len(day.integrated) - 1) :
              day.integrated[j] <= day.integrated[j + 1]
        /\ \A j \in 1..(Len(day.entries) - 1) :
              /\ day.entries[j].eday_kwh.den > 0
              /\ day.entries[j + 1].eday_kwh.den > 0
              /\ FractionLeq(day.entries[j].eday_kwh, day.entries[j + 1].eday_kwh)

\* three samples in time order, rescaled to 50 Wh: the entries grow
C39_Witness ==
    /\ day.pc = "done" /\ TimeOrdered(day.pacs)
    /\ day.actual = 50
    /\ Len(day.entries) = 3
    /\ day.integrated[2] < day.integrated[3]
    /\ ~FractionLeq(day.entries[3].eday_kwh, day.entries[2].eday_kwh)

====
